---- MODULE Spec2Model ----
(***************************************************************************)
(* A model of src/internal/helpers.ts of hardhat-deploy-ethers: the        *)
(* library linker (collectLibrariesAndLink, linkBytecode), the ABI gas     *)
(* annotation pass (addGasToAbiMethodsIfNecessary), contract-factory       *)
(* construction and signer resolution.                                     *)
(*                                                                         *)
(* JavaScript strings that the code only compares or concatenates          *)
(* (contract, source and library names) are TLA+ strings; strings the code *)
(* slices (bytecode, addresses, hex numbers) are sequences of one-char     *)
(* strings.  JavaScript objects whose key order matters (Object.entries)   *)
(* are sequences of entries with distinct keys.                            *)
(***************************************************************************)
EXTENDS Integers, Sequences, FiniteSets, TLC

VARIABLES hre, pc, op, args, ret, trace

vars == <<hre, pc, op, args, ret, trace>>

(***************************************************************************)
(* Bounds of the model.                                                    *)
(***************************************************************************)
\* the largest number of entries of a `libraries` object passed to the linker
MaxBindings == 3
\* the largest number of entries of an ABI passed to the gas pass
MaxAbiLen == 2

(***************************************************************************)
(* String helpers.                                                         *)
(***************************************************************************)
Min(a, b) == IF a < b THEN a ELSE b

Rep(c, n) == [i \in 1..n |-> c]

\* String.prototype.substr(start, length) for 0 <= start, 0 <= length
Substr(s, start, length) == SubSeq(s, start + 1, Min(start + length, Len(s)))

\* String.prototype.substr(start) for 0 <= start
SubstrFrom(s, start) == SubSeq(s, start + 1, Len(s))

RECURSIVE SeqToSet(_)
SeqToSet(s) == IF s = <<>> THEN {} ELSE {Head(s)} \cup SeqToSet(Tail(s))

DecDigits == {"0", "1", "2", "3", "4", "5", "6", "7", "8", "9"}

HexDigits == DecDigits \cup {"a", "b", "c", "d", "e", "f"}
                       \cup {"A", "B", "C", "D", "E", "F"}

AlnumChars == HexDigits \cup
    {"g", "h", "i", "j", "k", "l", "m", "n", "o", "p", "q", "r", "s", "t",
     "u", "v", "w", "x", "y", "z",
     "G", "H", "I", "J", "K", "L", "M", "N", "O", "P", "Q", "R", "S", "T",
     "U", "V", "W", "X", "Y", "Z"}

AllIn(s, chars) == \A i \in 1..Len(s) : s[i] \in chars

\* a linker that takes every binding value for an address
isAddress_AcceptsAll(address) == TRUE

(***************************************************************************)
(* utils.isAddress of ethers v5, which the linker calls on every binding   *)
(* value.  isAddress(a) is "getAddress(a) does not throw"; getAddress      *)
(* accepts /^(0x)?[0-9a-fA-F]{40}$/ (the 0x prefix is optional) and the    *)
(* ICAP form /^XE[0-9]{2}[0-9A-Za-z]{30,31}$/.  A mixed-case hex address   *)
(* must also carry a correct checksum; the addresses of this model are     *)
(* single-case, for which no checksum is checked.                          *)
(***************************************************************************)
isAddress(address) ==
    \/ /\ Len(address) = 40
       /\ AllIn(address, HexDigits)
    \/ /\ Len(address) = 42
       /\ address[1] = "0" /\ address[2] = "x"
       /\ AllIn(SubstrFrom(address, 2), HexDigits)
    \/ /\ Len(address) \in {34, 35}
       /\ address[1] = "X" /\ address[2] = "E"
       /\ address[3] \in DecDigits /\ address[4] \in DecDigits
       /\ AllIn(SubstrFrom(address, 4), AlnumChars)

(***************************************************************************)
(* Library linker.                                                         *)
(*                                                                         *)
(* artifact.linkReferences is a sequence of                                *)
(*   [sourceName, libs : sequence of [libName, refs : seq of [start,length]]] *)
(* in key order; artifact.hasLinkReferences is FALSE for an artifact whose *)
(* linkReferences is undefined.  `libraries` is a sequence of              *)
(* [name, address] entries with distinct names, in key order.              *)
(***************************************************************************)

\* `${lib.sourceName}:${lib.libName}`
FQN(lib) == lib.sourceName \o ":" \o lib.libName

RECURSIVE libsOfSource(_, _, _)
libsOfSource(sourceName, sourceLibraries, j) ==
    IF j > Len(sourceLibraries) THEN <<>>
    ELSE <<[sourceName |-> sourceName, libName |-> sourceLibraries[j].libName]>>
         \o libsOfSource(sourceName, sourceLibraries, j + 1)

RECURSIVE flattenLinkReferences(_, _)
flattenLinkReferences(linkReferences, i) ==
    IF i > Len(linkReferences) THEN <<>>
    ELSE libsOfSource(linkReferences[i].sourceName, linkReferences[i].libs, 1)
         \o flattenLinkReferences(linkReferences, i + 1)

\* the neededLibraries array the linker builds first
neededLibraries(artifact) ==
    IF artifact.hasLinkReferences
    THEN flattenLinkReferences(artifact.linkReferences, 1)
    ELSE <<>>

\* neededLibraries.filter(...) from index i on
RECURSIVE filterMatching(_, _, _)
filterMatching(needed, linkedLibraryName, i) ==
    IF i > Len(needed) THEN <<>>
    ELSE (IF \/ needed[i].libName = linkedLibraryName
             \/ FQN(needed[i]) = linkedLibraryName
          THEN <<needed[i]>> ELSE <<>>)
         \o filterMatching(needed, linkedLibraryName, i + 1)

\* find instead of filter: at most the first matching library
matchingNeededLibraries_FirstMatch(needed, linkedLibraryName) ==
    LET found == filterMatching(needed, linkedLibraryName, 1)
    IN  IF found = <<>> THEN <<>> ELSE <<found[1]>>

\* neededLibraries.filter(lib => lib.libName === name || FQN(lib) === name)
matchingNeededLibraries(needed, linkedLibraryName) ==
    filterMatching(needed, linkedLibraryName, 1)

\* libs.map(lib => `${lib.sourceName}:${lib.libName}`)
FQNames(libs) == [i \in 1..Len(libs) |-> FQN(libs[i])]

\* a map that never reports a key as present
linksHas_Never(linksToApply, key) == FALSE

\* Map.prototype.has on the linksToApply map (a sequence in insertion order)
linksHas(linksToApply, key) == \E i \in 1..Len(linksToApply) : linksToApply[i].key = key

\* an error thrown by the linker: its kind, the index of the binding being
\* resolved (0 after the loop), the names its message lists, and the
\* linksToApply map as it is when the error is thrown
LinkError(kind, at, names, detail, linksToApply) ==
    [kind |-> kind, at |-> at, names |-> names, detail |-> detail,
     links |-> linksToApply, bytecode |-> <<>>]

\* the message always announces a list of needed libraries
unknownLibraryError_AlwaysLists(needed, at, linksToApply) ==
    LinkError("UnknownLibrary", at, FQNames(needed),
              "The libraries needed are:", linksToApply)

\* the message of the "not one of its libraries" error
unknownLibraryError(needed, at, linksToApply) ==
    IF Len(needed) > 0
    THEN LinkError("UnknownLibrary", at, FQNames(needed),
                   "The libraries needed are:", linksToApply)
    ELSE LinkError("UnknownLibrary", at, <<>>,
                   "This contract doesn't need linking any libraries.",
                   linksToApply)

\* one more resolved link: linksToApply.set(neededLibraryFQN, {...})
linksSet(linksToApply, neededLibrary, address) ==
    Append(linksToApply,
           [key |-> FQN(neededLibrary),
            sourceName |-> neededLibrary.sourceName,
            libraryName |-> neededLibrary.libName,
            address |-> address])

\* the loop over Object.entries(libraries): the first error it throws, or
\* the linksToApply map once every binding is resolved
RECURSIVE resolveLibraries(_, _, _, _)
resolveLibraries(needed, libraries, i, linksToApply) ==
    IF i > Len(libraries)
    THEN [kind |-> "resolved", at |-> 0, names |-> <<>>, detail |-> "",
          links |-> linksToApply, bytecode |-> <<>>]
    ELSE LET linkedLibraryName == libraries[i].name
             linkedLibraryAddress == libraries[i].address
             matching == matchingNeededLibraries(needed, linkedLibraryName)
         IN  IF ~isAddress(linkedLibraryAddress)
             THEN LinkError("InvalidAddress", i, <<>>, "", linksToApply)
             ELSE IF Len(matching) = 0
             THEN unknownLibraryError(needed, i, linksToApply)
             ELSE IF Len(matching) > 1
             THEN LinkError("AmbiguousLibraryName", i, FQNames(matching), "",
                            linksToApply)
             ELSE IF linksHas(linksToApply, FQN(matching[1]))
             THEN LinkError("DuplicateLinkEntry", i,
                            <<matching[1].libName, FQN(matching[1])>>, "",
                            linksToApply)
             ELSE resolveLibraries(needed, libraries, i + 1,
                                   linksSet(linksToApply, matching[1],
                                            linkedLibraryAddress))

\* artifact.linkReferences[sourceName][libraryName]
RECURSIVE lookupLib(_, _, _)
lookupLib(libs, libraryName, j) ==
    IF libs[j].libName = libraryName THEN libs[j].refs
    ELSE lookupLib(libs, libraryName, j + 1)

RECURSIVE lookupRefs(_, _, _, _)
lookupRefs(linkReferences, sourceName, libraryName, i) ==
    IF linkReferences[i].sourceName = sourceName
    THEN lookupLib(linkReferences[i].libs, libraryName, 1)
    ELSE lookupRefs(linkReferences, sourceName, libraryName, i + 1)

\* bytecode.substr(0, 2 + start*2) + address.substr(2)
\*   + bytecode.substr(2 + (start + length)*2)
patchSlot(bytecode, address, ref) ==
    Substr(bytecode, 0, 2 + ref.start * 2)
    \o SubstrFrom(address, 2)
    \o SubstrFrom(bytecode, 2 + (ref.start + ref.length) * 2)

RECURSIVE patchRefs(_, _, _, _)
patchRefs(bytecode, address, refs, k) ==
    IF k > Len(refs) THEN bytecode
    ELSE patchRefs(patchSlot(bytecode, address, refs[k]), address, refs, k + 1)

RECURSIVE patchLinks(_, _, _, _)
patchLinks(bytecode, artifact, links, i) ==
    IF i > Len(links) THEN bytecode
    ELSE patchLinks(
           patchRefs(bytecode, links[i].address,
                     lookupRefs(artifact.linkReferences, links[i].sourceName,
                                links[i].libraryName, 1), 1),
           artifact, links, i + 1)

linkBytecode(artifact, links) == patchLinks(artifact.bytecode, artifact, links, 1)

\* libFQNames.filter(libFQName => !linksToApply.has(libFQName)) from index i on
RECURSIVE filterNotLinked(_, _, _)
filterNotLinked(libFQNames, linksToApply, i) ==
    IF i > Len(libFQNames) THEN <<>>
    ELSE (IF ~linksHas(linksToApply, libFQNames[i])
          THEN <<libFQNames[i]>> ELSE <<>>)
         \o filterNotLinked(libFQNames, linksToApply, i + 1)

\* a linker without the completeness check
collectLibrariesAndLink_NoCompleteness(artifact, libraries) ==
    LET r == resolveLibraries(neededLibraries(artifact), libraries, 1, <<>>)
    IN  IF r.kind # "resolved" THEN r
        ELSE [kind |-> "linked", at |-> 0, names |-> <<>>, detail |-> "",
              links |-> r.links,
              bytecode |-> linkBytecode(artifact, r.links)]

\* a completeness check whose message lists every needed library
collectLibrariesAndLink_ListsAllNeeded(artifact, libraries) ==
    LET needed == neededLibraries(artifact)
        r == resolveLibraries(needed, libraries, 1, <<>>)
    IN  IF r.kind # "resolved" THEN r
        ELSE IF Len(r.links) < Len(needed)
        THEN LinkError("MissingLibraries", 0, FQNames(needed), "", r.links)
        ELSE [kind |-> "linked", at |-> 0, names |-> <<>>, detail |-> "",
              links |-> r.links,
              bytecode |-> linkBytecode(artifact, r.links)]

\* the completeness check and the final patch
collectLibrariesAndLink(artifact, libraries) ==
    LET needed == neededLibraries(artifact)
        r == resolveLibraries(needed, libraries, 1, <<>>)
    IN  IF r.kind # "resolved" THEN r
        ELSE IF Len(r.links) < Len(needed)
        THEN LinkError("MissingLibraries", 0,
                       filterNotLinked(FQNames(needed), r.links, 1), "", r.links)
        ELSE [kind |-> "linked", at |-> 0, names |-> <<>>, detail |-> "",
              links |-> r.links,
              bytecode |-> linkBytecode(artifact, r.links)]

(***************************************************************************)
(* ABI entries of the model: a function without a gas field, a function    *)
(* that already has one, an event and a constructor.                       *)
(***************************************************************************)
AbiEntries ==
    {[type |-> "function", name |-> "f", gas |-> <<>>],
     [type |-> "function", name |-> "g", gas |-> <<"0", "x", "0", "1">>],
     [type |-> "event", name |-> "E", gas |-> <<>>],
     [type |-> "constructor", name |-> "", gas |-> <<>>]}

AbiInputs == UNION {[1..n -> AbiEntries] : n \in 0..MaxAbiLen}

SampleAbi ==
    <<[type |-> "constructor", name |-> "", gas |-> <<>>],
      [type |-> "function", name |-> "f", gas |-> <<>>]>>

(***************************************************************************)
(* ABI gas annotation.                                                     *)
(*                                                                         *)
(* An ABI is a sequence of entries [type, name, gas]; gas is <<>> for an   *)
(* entry without a gas field.  networkConfig.gas is [kind, value] with     *)
(* kind "auto", "undefined" or "number".                                   *)
(***************************************************************************)
\* the margin the pass subtracts from the configured gas
GasMargin == 1000000

HexDigitOf(d) ==
    <<"0", "1", "2", "3", "4", "5", "6", "7", "8", "9",
      "a", "b", "c", "d", "e", "f">>[d + 1]

\* BN.toString(16) of n >= 0
RECURSIVE toString16(_)
toString16(n) ==
    IF n < 16 THEN <<HexDigitOf(n)>>
    ELSE toString16(n \div 16) \o <<HexDigitOf(n % 16)>>

\* BigNumber.prototype.toHexString of ethers v5: "0x" and an even number of
\* digits, "-" in front of a negative value, "0x00" for zero
toHexString(n) ==
    LET digits == toString16(IF n < 0 THEN 0 - n ELSE n)
        even == IF Len(digits) % 2 = 1 THEN <<"0">> \o digits ELSE digits
    IN  (IF n < 0 THEN <<"-">> ELSE <<>>) \o <<"0", "x">> \o even

\* { ...abiElement, gas: gasLimit }
withGas(abiElement, gasLimit) ==
    [type |-> abiElement.type, name |-> abiElement.name, gas |-> gasLimit]

\* a pass that sets the gas field on the input entries themselves
addGasToAbiMethodsIfNecessary_InPlace(networkConfig, abi) ==
    IF networkConfig.gas.kind = "auto" \/ networkConfig.gas.kind = "undefined"
    THEN [abi |-> [i \in 1..Len(abi) |-> [from |-> i, entry |-> abi[i]]],
          same |-> TRUE,
          input |-> abi]
    ELSE LET gasLimit == toHexString(networkConfig.gas.value - GasMargin)
             after == [i \in 1..Len(abi) |->
                        IF abi[i].type # "function" THEN abi[i]
                        ELSE withGas(abi[i], gasLimit)]
         IN  [abi |-> [i \in 1..Len(abi) |-> [from |-> i, entry |-> after[i]]],
              same |-> FALSE,
              input |-> after]

\* The pass.  abi: the entries of the returned array, each with `from`, the
\* index of the input object it is (0 for an object the pass created);
\* same: the returned array is the input array itself; input: the entries
\* of the input array after the call.
addGasToAbiMethodsIfNecessary(networkConfig, abi) ==
    IF networkConfig.gas.kind = "auto" \/ networkConfig.gas.kind = "undefined"
    THEN [abi |-> [i \in 1..Len(abi) |-> [from |-> i, entry |-> abi[i]]],
          same |-> TRUE,
          input |-> abi]
    ELSE LET gasLimit == toHexString(networkConfig.gas.value - GasMargin)
         IN  [abi |-> [i \in 1..Len(abi) |->
                        IF abi[i].type # "function"
                        THEN [from |-> i, entry |-> abi[i]]
                        ELSE [from |-> 0, entry |-> withGas(abi[i], gasLimit)]],
              same |-> FALSE,
              input |-> abi]

(***************************************************************************)
(* Signers.                                                                *)
(*                                                                         *)
(* hre.deploy says whether the deployment plugin is installed, that is     *)
(* whether hre.deployments and hre.getNamedAccounts are defined.           *)
(***************************************************************************)
\* hre.ethers.provider.listAccounts()
ProviderAccounts == <<"0xAA", "0xBB">>

\* (await getNamedAccounts())[name]: "" stands for undefined
NamedAccount(name) ==
    CASE name = "deployer" -> "0xAA"
      [] name = "user" -> "0xCC"
      [] OTHER -> ""

\* String.prototype.toLowerCase on the addresses of the model
toLowerCase(a) ==
    CASE a = "0xAA" -> "0xaa"
      [] a = "0xBB" -> "0xbb"
      [] a = "0xCC" -> "0xcc"
      [] OTHER -> a

Null == [null |-> TRUE, address |-> ""]

\* hre.ethers.provider.getSigner(account): a JSON-RPC signer for the given
\* address; the provider's account list is not consulted
providerGetSigner(account) == [null |-> FALSE, address |-> account]

\* SignerWithAddress.create(signer): a signing handle bound to the
\* signer's address
SignerWithAddressCreate(signer) == [null |-> FALSE, address |-> signer.address]

_getSigner(account) == SignerWithAddressCreate(providerGetSigner(account))

\* defined by the source and called by none of its operations
_getSignerFromAccountList(account) ==
    IF \E i \in 1..Len(ProviderAccounts) : toLowerCase(ProviderAccounts[i]) = account
    THEN SignerWithAddressCreate(providerGetSigner(account))
    ELSE Null

Return(value) == [kind |-> "return", error |-> "", value |-> value]

Throw(error) == [kind |-> "throw", error |-> error, value |-> <<>>]

getSignerOrNull(address) ==
    IF address = "" THEN Throw("need to specify address")
    ELSE Return(_getSigner(address))

getSigner(address) ==
    LET r == getSignerOrNull(address)
    IN  IF r.kind = "throw" THEN r
        ELSE IF r.value.null THEN Throw("NoSignerFound")
        ELSE r

getSigners == [i \in 1..Len(ProviderAccounts) |-> _getSigner(ProviderAccounts[i])]

getNamedSignerOrNull(env, name) ==
    IF env.deploy
    THEN IF NamedAccount(name) = "" THEN Throw("NoNamedAccount")
         ELSE Return(_getSigner(NamedAccount(name)))
    ELSE Throw("NoDeploymentPluginInstalled")

getNamedSigner(env, name) ==
    LET r == getNamedSignerOrNull(env, name)
    IN  IF r.kind = "throw" THEN r
        ELSE IF r.value.null THEN Throw("NoSignerFound")
        ELSE r

(***************************************************************************)
(* Inputs of the linker.                                                   *)
(***************************************************************************)
\* a 0x-prefixed address, an address without the prefix (isAddress accepts
\* both) and a string that is no address
AddrA == <<"0", "x">> \o Rep("a", 40)

AddrB == Rep("b", 40)

AddrBad == <<"n", "o", "t", "-", "a", "n", "-", "a", "d", "d", "r", "e", "s", "s">>

Addresses == {AddrA, AddrB, AddrBad}

\* keys of a `libraries` object: bare names, fully qualified names, and a
\* fully qualified name under a source the artifacts do not have
LibraryNames == {"Lib", "M", "F1:Lib", "F1:M", "F2:Lib", "F3:Lib"}

LibrariesInputs ==
    {l \in UNION {[1..n -> [name : LibraryNames, address : Addresses]] :
                  n \in 0..MaxBindings} :
        \A i, j \in 1..Len(l) : l[i].name = l[j].name => i = j}

\* the k-th 20-byte link slot of a compiled bytecode: a one-byte opcode
\* precedes every slot
Slot(k) == [start |-> 21 * (k - 1) + 1, length |-> 20]

\* the placeholder the compiler leaves in a slot
Placeholder == Rep("_", 40)

RECURSIVE Slots(_)
Slots(n) == IF n = 0 THEN <<>> ELSE Slots(n - 1) \o <<"6", "0">> \o Placeholder

\* An artifact that needs F1:Lib (a), F1:M (b) and F2:Lib (c).  The first
\* needed library occurs twice in the bytecode, the others once.
LinkedArtifact(a, b, c) ==
    LET n == (IF a THEN 1 ELSE 0) + (IF b THEN 1 ELSE 0) + (IF c THEN 1 ELSE 0)
        Refs(k) == IF k = 1 THEN <<Slot(1), Slot(n + 1)>> ELSE <<Slot(k)>>
        ka == 1
        kb == IF a THEN 2 ELSE 1
        kc == n
        f1 == (IF a THEN <<[libName |-> "Lib", refs |-> Refs(ka)]>> ELSE <<>>)
              \o (IF b THEN <<[libName |-> "M", refs |-> Refs(kb)]>> ELSE <<>>)
    IN  [contractName |-> "C",
         abi |-> SampleAbi,
         hasLinkReferences |-> TRUE,
         linkReferences |->
            (IF a \/ b THEN <<[sourceName |-> "F1", libs |-> f1]>> ELSE <<>>)
            \o (IF c THEN <<[sourceName |-> "F2",
                             libs |-> <<[libName |-> "Lib", refs |-> Refs(kc)]>>]>>
                     ELSE <<>>),
         bytecode |-> <<"0", "x">> \o Slots(IF n = 0 THEN 0 ELSE n + 1)
                      \o <<"f", "3">>]

\* an artifact whose linkReferences is undefined
UnlinkedArtifact ==
    [contractName |-> "C", abi |-> SampleAbi,
     hasLinkReferences |-> FALSE, linkReferences |-> <<>>,
     bytecode |-> <<"0", "x", "6", "0", "f", "3">>]

LinkArtifacts ==
    {LinkedArtifact(a, b, c) : a \in BOOLEAN, b \in BOOLEAN, c \in BOOLEAN}
    \cup {UnlinkedArtifact}

(***************************************************************************)
(* Contract factories.                                                     *)
(*                                                                         *)
(* A signer argument is [tag, signer, address] with tag "undefined",       *)
(* "Signer" (an ethers.Signer object) or "string" (an address); the        *)
(* signerOrOptions argument also has tag "options", a FactoryOptions       *)
(* object [signer, hasLibraries, libraries].  An operation returns its     *)
(* result and the trace of the collaborators it called, in order.          *)
(***************************************************************************)
Undefined == [tag |-> "undefined"]

\* hre.artifacts / hre.deployments: the compiled artifacts by contract name
ArtifactStore ==
    [Abstract |-> [contractName |-> "Abstract", abi |-> SampleAbi,
                   hasLinkReferences |-> TRUE, linkReferences |-> <<>>,
                   bytecode |-> <<"0", "x">>],
     Token |-> [LinkedArtifact(FALSE, FALSE, FALSE) EXCEPT !.contractName = "Token"],
     UsesLib |-> [LinkedArtifact(TRUE, FALSE, FALSE) EXCEPT !.contractName = "UsesLib"]]

\* the collaborator _getArtifact reads from
_getArtifact(env) ==
    IF env.deploy THEN "deployments.getArtifact" ELSE "artifacts.readArtifact"

isFactoryOptions(signerOrOptions) ==
    ~(signerOrOptions.tag = "undefined" \/ signerOrOptions.tag = "Signer")

getContractFactoryByAbiAndBytecode(env, abi, bytecode, signer) ==
    LET resolved ==
            IF signer.tag = "undefined"
            THEN [signer |-> IF Len(getSigners) > 0 THEN getSigners[1] ELSE Null,
                  trace |-> <<"getSigners">>]
            ELSE IF signer.tag = "string"
            THEN [signer |-> _getSigner(signer.address), trace |-> <<"_getSigner">>]
            ELSE [signer |-> signer.signer, trace |-> <<>>]
        abiWithAddedGas == addGasToAbiMethodsIfNecessary(env.network, abi)
    IN  [ret |-> Return([abi |-> [i \in 1..Len(abi) |-> abiWithAddedGas.abi[i].entry],
                         bytecode |-> bytecode,
                         signer |-> resolved.signer]),
         trace |-> resolved.trace
                   \o <<"addGasToAbiMethodsIfNecessary", "new ContractFactory">>]

\* the abstract-contract check made after linking instead of before
getContractFactoryByName_LinksFirst(env, contractName, signerOrOptions) ==
    IF contractName \notin DOMAIN ArtifactStore
    THEN [ret |-> Throw("ArtifactNotFound"), trace |-> <<_getArtifact(env)>>]
    ELSE
    LET artifact == ArtifactStore[contractName]
        options == isFactoryOptions(signerOrOptions)
        signer == IF options
                  THEN IF signerOrOptions.tag = "options"
                       THEN signerOrOptions.signer ELSE Undefined
                  ELSE signerOrOptions
        libraries == IF options /\ signerOrOptions.tag = "options"
                        /\ signerOrOptions.hasLibraries
                     THEN signerOrOptions.libraries ELSE <<>>
        linked == collectLibrariesAndLink(artifact, libraries)
        factory == getContractFactoryByAbiAndBytecode(env, artifact.abi,
                                                      linked.bytecode, signer)
    IN  IF linked.kind # "linked"
        THEN [ret |-> Throw(linked.kind),
              trace |-> <<_getArtifact(env), "collectLibrariesAndLink">>]
        ELSE IF artifact.bytecode = <<"0", "x">>
        THEN [ret |-> Throw("AbstractContractError"),
              trace |-> <<_getArtifact(env), "collectLibrariesAndLink">>]
        ELSE [ret |-> factory.ret,
              trace |-> <<_getArtifact(env), "collectLibrariesAndLink">>
                        \o factory.trace]

getContractFactoryByName(env, contractName, signerOrOptions) ==
    IF contractName \notin DOMAIN ArtifactStore
    THEN [ret |-> Throw("ArtifactNotFound"), trace |-> <<_getArtifact(env)>>]
    ELSE
    LET artifact == ArtifactStore[contractName]
        options == isFactoryOptions(signerOrOptions)
        \* signerOrOptions.signer and signerOrOptions.libraries ?? {}: both
        \* undefined on a string
        signer == IF options
                  THEN IF signerOrOptions.tag = "options"
                       THEN signerOrOptions.signer ELSE Undefined
                  ELSE signerOrOptions
        libraries == IF options /\ signerOrOptions.tag = "options"
                        /\ signerOrOptions.hasLibraries
                     THEN signerOrOptions.libraries ELSE <<>>
        linked == collectLibrariesAndLink(artifact, libraries)
        factory == getContractFactoryByAbiAndBytecode(env, artifact.abi,
                                                      linked.bytecode, signer)
    IN  IF artifact.bytecode = <<"0", "x">>
        THEN [ret |-> Throw("AbstractContractError"), trace |-> <<_getArtifact(env)>>]
        ELSE IF linked.kind # "linked"
        THEN [ret |-> Throw(linked.kind),
              trace |-> <<_getArtifact(env), "collectLibrariesAndLink">>]
        ELSE [ret |-> factory.ret,
              trace |-> <<_getArtifact(env), "collectLibrariesAndLink">>
                        \o factory.trace]

\* the overloaded entry point: nameOrAbi is [isString, name, abi]
getContractFactory(env, nameOrAbi, bytecodeOrFactoryOptions, signer) ==
    IF nameOrAbi.isString
    THEN getContractFactoryByName(env, nameOrAbi.name, bytecodeOrFactoryOptions)
    ELSE getContractFactoryByAbiAndBytecode(env, nameOrAbi.abi,
                                            bytecodeOrFactoryOptions, signer)

(***************************************************************************)
(* The linker as a function of its inputs: one call of                     *)
(* collectLibrariesAndLink on an artifact and a libraries object.          *)
(***************************************************************************)
NoHre == [network |-> [gas |-> [kind |-> "auto", value |-> 0]], deploy |-> FALSE]

LinkInit ==
    /\ hre = NoHre
    /\ pc = "idle"
    /\ op = ""
    /\ args = <<>>
    /\ ret = <<>>
    /\ trace = <<>>

CallCollectLibrariesAndLink ==
    /\ pc = "idle"
    /\ \E artifact \in LinkArtifacts, libraries \in LibrariesInputs :
          /\ args' = [artifact |-> artifact, libraries |-> libraries]
          /\ ret' = collectLibrariesAndLink(artifact, libraries)
    /\ op' = "collectLibrariesAndLink"
    /\ pc' = "done"
    /\ UNCHANGED <<hre, trace>>

LinkNext == CallCollectLibrariesAndLink

LinkSpec == LinkInit /\ [][LinkNext]_vars

(***************************************************************************)
(* Properties of the linker, stated on the inputs and the result of a      *)
(* call, independently of the definitions above.                           *)
(***************************************************************************)
Linking == pc = "done" /\ op = "collectLibrariesAndLink"

\* the binding values of the model that are addresses, and the one that is not
ValidAddress(address) == address \in {AddrA, AddrB}

NotAnAddress(address) == address = AddrBad

\* the (sourceName, libraryName) pairs the link-reference map declares
DeclaredPairs(artifact) ==
    IF ~artifact.hasLinkReferences THEN {}
    ELSE UNION {{<<artifact.linkReferences[i].sourceName,
                   artifact.linkReferences[i].libs[j].libName>> :
                     j \in 1..Len(artifact.linkReferences[i].libs)} :
                i \in 1..Len(artifact.linkReferences)}

PairFQN(pair) == pair[1] \o ":" \o pair[2]

\* the binding identifier names the declared pair, bare or fully qualified
Names(name, pair) == name = pair[2] \/ name = PairFQN(pair)

Candidates(artifact, name) == {pair \in DeclaredPairs(artifact) : Names(name, pair)}

\* binding i is one the loop resolves to a link when it gets to it
ResolvesCleanly(artifact, libraries, i) ==
    /\ ValidAddress(libraries[i].address)
    /\ Cardinality(Candidates(artifact, libraries[i].name)) = 1
    /\ \A k \in 1..(i - 1) :
          Candidates(artifact, libraries[k].name)
            # Candidates(artifact, libraries[i].name)

\* the loop gets to binding i: every binding before it resolved to a link
Examined(artifact, libraries, i) ==
    \A k \in 1..(i - 1) : ResolvesCleanly(artifact, libraries, k)

\* C1: whenever collectLibrariesAndLink returns a bytecode, the links it
\* applies are as many as the distinct (sourceName, libraryName) pairs the
\* artifact declares, and every declared pair is resolved by exactly one
\* binding and carried by exactly one link: none missing, none twice.
C1_LinkCardinality ==
    (Linking /\ ret.kind = "linked") =>
        LET pairs == DeclaredPairs(args.artifact) IN
        /\ Len(ret.links) = Cardinality(pairs)
        /\ \A pair \in pairs :
              /\ Cardinality({i \in 1..Len(ret.links) :
                    /\ ret.links[i].sourceName = pair[1]
                    /\ ret.links[i].libraryName = pair[2]}) = 1
              /\ Cardinality({i \in 1..Len(args.libraries) :
                    Names(args.libraries[i].name, pair)}) = 1

\* a successful link of an artifact that needs three libraries, two of them
\* with the same bare name
C1_Witness ==
    /\ Linking /\ ret.kind = "linked"
    /\ Cardinality(DeclaredPairs(args.artifact)) = 3
    /\ Len(ret.links) = 3

\* C2: if every supplied binding resolves without error but the bindings
\* are fewer than the needed libraries, linking fails with MissingLibraries,
\* the listed names are exactly the fully qualified names of the needed
\* libraries no binding resolved, and no bytecode is returned.
C2_Completeness ==
    (/\ Linking
     /\ \A i \in 1..Len(args.libraries) :
           ResolvesCleanly(args.artifact, args.libraries, i)
     /\ Len(args.libraries) < Cardinality(DeclaredPairs(args.artifact)))
    => /\ ret.kind = "MissingLibraries"
       /\ SeqToSet(ret.names) =
             {PairFQN(pair) : pair \in
                {q \in DeclaredPairs(args.artifact) :
                    \A i \in 1..Len(args.libraries) :
                        ~Names(args.libraries[i].name, q)}}
       /\ Len(ret.names) = Cardinality(SeqToSet(ret.names))
       /\ ret.names # <<>>
       /\ ret.bytecode = <<>>

\* an artifact needing two libraries with one of them bound: one name listed
C2_Witness ==
    /\ Linking /\ ret.kind = "MissingLibraries"
    /\ Cardinality(DeclaredPairs(args.artifact)) = 2
    /\ Len(args.libraries) = 1
    /\ Len(ret.names) = 1

\* C3: a binding whose value is not a valid address makes linking fail
\* with InvalidAddress when the loop gets to it (the bindings after a failing
\* one are never looked at), whether or not its name matches a needed
\* library; a call with such a binding never returns a bytecode.
C3_AddressValidation ==
    Linking =>
        \A i \in 1..Len(args.libraries) :
            NotAnAddress(args.libraries[i].address) =>
                /\ ret.kind # "linked"
                /\ Examined(args.artifact, args.libraries, i) =>
                      (ret.kind = "InvalidAddress" /\ ret.at = i)

\* an invalid address under a name that matches exactly one needed library
C3_Witness ==
    /\ Linking /\ ret.kind = "InvalidAddress"
    /\ args.libraries[ret.at].address = AddrBad
    /\ Cardinality(Candidates(args.artifact, args.libraries[ret.at].name)) = 1

\* C4: a binding with a valid address whose identifier matches more than
\* one needed library makes linking fail with AmbiguousLibraryName when the
\* loop gets to it; the
\* message lists exactly the fully qualified names of all the candidates,
\* and no link is recorded for that binding.
C4_Ambiguity ==
    Linking =>
        \A i \in 1..Len(args.libraries) :
            (/\ Examined(args.artifact, args.libraries, i)
             /\ ValidAddress(args.libraries[i].address)
             /\ Cardinality(Candidates(args.artifact, args.libraries[i].name)) > 1)
            => /\ ret.kind = "AmbiguousLibraryName"
               /\ ret.at = i
               /\ SeqToSet(ret.names) =
                    {PairFQN(pair) : pair \in
                        Candidates(args.artifact, args.libraries[i].name)}
               /\ Len(ret.names) =
                    Cardinality(Candidates(args.artifact, args.libraries[i].name))
               /\ Len(ret.links) = i - 1
               /\ ret.bytecode = <<>>

\* needed F1:Lib and F2:Lib, binding "Lib": both names listed
C4_Witness ==
    /\ Linking /\ ret.kind = "AmbiguousLibraryName"
    /\ args.libraries[ret.at].name = "Lib"
    /\ SeqToSet(ret.names) = {"F1:Lib", "F2:Lib"}

\* C5: when two bindings of one call resolve to the same needed library,
\* linking fails with DuplicateLinkEntry when the loop gets to the second
\* of them; and DuplicateLinkEntry is only ever raised for two bindings of
\* which one is the bare name and the other the fully qualified name of the
\* same needed library.
C5_Duplicate ==
    Linking =>
        /\ \A i \in 1..Len(args.libraries) :
              (/\ Examined(args.artifact, args.libraries, i)
               /\ ValidAddress(args.libraries[i].address)
               /\ Cardinality(Candidates(args.artifact, args.libraries[i].name)) = 1
               /\ \E k \in 1..(i - 1) :
                     Candidates(args.artifact, args.libraries[k].name)
                       = Candidates(args.artifact, args.libraries[i].name))
              => (ret.kind = "DuplicateLinkEntry" /\ ret.at = i)
        /\ ret.kind = "DuplicateLinkEntry" =>
              \E k \in 1..(ret.at - 1), pair \in DeclaredPairs(args.artifact) :
                 {args.libraries[k].name, args.libraries[ret.at].name}
                    = {pair[2], PairFQN(pair)}

\* {"Lib": addr1, "F1:Lib": addr2} against the single needed library F1:Lib
C5_Witness ==
    /\ Linking /\ ret.kind = "DuplicateLinkEntry"
    /\ Cardinality(DeclaredPairs(args.artifact)) = 1
    /\ args.libraries[1].name = "Lib"
    /\ args.libraries[2].name = "F1:Lib"
    /\ args.libraries[1].address # args.libraries[2].address

\* C7: a binding with a valid address whose identifier is neither the bare
\* name nor the fully qualified name of any needed library makes linking
\* fail with UnknownLibrary when the loop gets to it, also when the artifact
\* needs no library; the
\* message lists all needed fully qualified names, or says that none are
\* needed when there are none.
C7_UnknownLibrary ==
    Linking =>
        \A i \in 1..Len(args.libraries) :
            (/\ Examined(args.artifact, args.libraries, i)
             /\ ValidAddress(args.libraries[i].address)
             /\ Candidates(args.artifact, args.libraries[i].name) = {})
            => /\ ret.kind = "UnknownLibrary"
               /\ ret.at = i
               /\ IF DeclaredPairs(args.artifact) = {}
                  THEN /\ ret.names = <<>>
                       /\ ret.detail =
                            "This contract doesn't need linking any libraries."
                  ELSE /\ SeqToSet(ret.names) =
                            {PairFQN(pair) : pair \in DeclaredPairs(args.artifact)}
                       /\ Len(ret.names) = Cardinality(DeclaredPairs(args.artifact))
                       /\ ret.detail = "The libraries needed are:"

\* an unknown name against an artifact that needs two libraries
C7_Witness ==
    /\ Linking /\ ret.kind = "UnknownLibrary"
    /\ Len(ret.names) = 2
    /\ \A pair \in DeclaredPairs(args.artifact) :
          ~Names(args.libraries[ret.at].name, pair)

(***************************************************************************)
(* The exported operations: one call of an operation on a runtime          *)
(* environment.                                                            *)
(***************************************************************************)
GasSettings ==
    {[kind |-> "auto", value |-> 0], [kind |-> "undefined", value |-> 0]}
    \cup {[kind |-> "number", value |-> g] : g \in {8000000, 1000015, 999999}}

HreSet == {[network |-> [gas |-> g], deploy |-> d] : g \in GasSettings, d \in BOOLEAN}

AddressInputs == {"0xAA", "0xCC", ""}

AccountNames == {"deployer", "user", "nobody"}

SignerInputs ==
    {Undefined,
     [tag |-> "Signer", signer |-> [null |-> FALSE, address |-> "0xBB"]],
     [tag |-> "string", address |-> "0xCC"]}

\* the `libraries` objects of a FactoryOptions
OptionLibraries == {l \in LibrariesInputs : Len(l) <= 1}

SignerOrOptionsInputs ==
    SignerInputs
    \cup {[tag |-> "options", signer |-> sg, hasLibraries |-> FALSE,
           libraries |-> <<>>] : sg \in SignerInputs}
    \cup {[tag |-> "options", signer |-> sg, hasLibraries |-> TRUE,
           libraries |-> l] : sg \in SignerInputs, l \in OptionLibraries}

ContractNames == {"Abstract", "Token", "UsesLib", "Nowhere"}

BytecodeInputs == {<<"0", "x">>, <<"0", "x", "6", "0", "f", "3">>}

Init ==
    /\ hre \in HreSet
    /\ pc = "idle"
    /\ op = ""
    /\ args = <<>>
    /\ ret = <<>>
    /\ trace = <<>>

Done(name) == pc' = "done" /\ op' = name /\ UNCHANGED hre

CallGetSignerOrNull ==
    /\ pc = "idle"
    /\ \E address \in AddressInputs :
          /\ args' = [address |-> address]
          /\ ret' = getSignerOrNull(address)
    /\ trace' = <<>>
    /\ Done("getSignerOrNull")

CallGetSigner ==
    /\ pc = "idle"
    /\ \E address \in AddressInputs :
          /\ args' = [address |-> address]
          /\ ret' = getSigner(address)
    /\ trace' = <<>>
    /\ Done("getSigner")

CallGetSigners ==
    /\ pc = "idle"
    /\ args' = <<>>
    /\ ret' = Return(getSigners)
    /\ trace' = <<>>
    /\ Done("getSigners")

CallGetNamedSignerOrNull ==
    /\ pc = "idle"
    /\ \E name \in AccountNames :
          /\ args' = [name |-> name]
          /\ ret' = getNamedSignerOrNull(hre, name)
    /\ trace' = <<>>
    /\ Done("getNamedSignerOrNull")

CallGetNamedSigner ==
    /\ pc = "idle"
    /\ \E name \in AccountNames :
          /\ args' = [name |-> name]
          /\ ret' = getNamedSigner(hre, name)
    /\ trace' = <<>>
    /\ Done("getNamedSigner")

CallGetContractFactoryByName ==
    /\ pc = "idle"
    /\ \E name \in ContractNames, signerOrOptions \in SignerOrOptionsInputs :
          LET r == getContractFactory(hre, [isString |-> TRUE, name |-> name],
                                      signerOrOptions, Undefined)
          IN  /\ args' = [name |-> name, signerOrOptions |-> signerOrOptions]
              /\ ret' = r.ret
              /\ trace' = r.trace
    /\ Done("getContractFactory(name)")

CallGetContractFactoryByAbi ==
    /\ pc = "idle"
    /\ \E abi \in AbiInputs, bytecode \in BytecodeInputs, signer \in SignerInputs :
          LET r == getContractFactory(hre, [isString |-> FALSE, abi |-> abi],
                                      bytecode, signer)
          IN  /\ args' = [abi |-> abi, bytecode |-> bytecode, signer |-> signer]
              /\ ret' = r.ret
              /\ trace' = r.trace
    /\ Done("getContractFactory(abi)")

CallAddGasToAbiMethodsIfNecessary ==
    /\ pc = "idle"
    /\ \E abi \in AbiInputs :
          /\ args' = [abi |-> abi]
          /\ ret' = addGasToAbiMethodsIfNecessary(hre.network, abi)
    /\ trace' = <<>>
    /\ Done("addGasToAbiMethodsIfNecessary")

Next ==
    \/ CallGetSignerOrNull
    \/ CallGetSigner
    \/ CallGetSigners
    \/ CallGetNamedSignerOrNull
    \/ CallGetNamedSigner
    \/ CallGetContractFactoryByName
    \/ CallGetContractFactoryByAbi
    \/ CallAddGasToAbiMethodsIfNecessary

Spec == Init /\ [][Next]_vars

(***************************************************************************)
(* Properties of the patched bytecode.                                     *)
(***************************************************************************)
\* the 40 hex characters of an address, without its 0x prefix if it has one
AddressHex(address) ==
    IF Len(address) >= 2 /\ address[1] = "0" /\ address[2] = "x"
    THEN SubSeq(address, 3, Len(address))
    ELSE address

\* the slots the link-reference map declares for a (sourceName, libraryName)
DeclaredSlots(artifact, sourceName, libraryName) ==
    UNION {UNION {SeqToSet(artifact.linkReferences[i].libs[j].refs) :
                    j \in {j \in 1..Len(artifact.linkReferences[i].libs) :
                            artifact.linkReferences[i].libs[j].libName = libraryName}} :
           i \in {i \in 1..Len(artifact.linkReferences) :
                    artifact.linkReferences[i].sourceName = sourceName}}

\* the string positions (from 1) of a slot: 2 + start*2 up to 2 + (start+length)*2
SlotPositions(slot) == (2 + slot.start * 2 + 1)..(2 + (slot.start + slot.length) * 2)

\* C6: for every resolved link and every declared 20-byte slot of it, the
\* returned bytecode holds the link's 40 address hex characters at string
\* positions 2 + start*2 up to 2 + (start+20)*2, every character outside
\* the declared slots is the input's and the length is the input's; with
\* no link references and no bindings the bytecode is returned as it is.
C6_PatchCorrectness ==
    (Linking /\ ret.kind = "linked") =>
        LET input == args.artifact.bytecode
            slots == UNION {DeclaredSlots(args.artifact, ret.links[i].sourceName,
                                          ret.links[i].libraryName) :
                            i \in 1..Len(ret.links)}
        IN  /\ Len(ret.bytecode) = Len(input)
            /\ \A i \in 1..Len(ret.links) :
                 \A slot \in DeclaredSlots(args.artifact, ret.links[i].sourceName,
                                           ret.links[i].libraryName) :
                    slot.length = 20 =>
                        SubSeq(ret.bytecode, 2 + slot.start * 2 + 1,
                               2 + (slot.start + 20) * 2)
                          = AddressHex(ret.links[i].address)
            /\ \A p \in 1..Len(input) :
                 (\A slot \in slots : p \notin SlotPositions(slot)) =>
                    (p <= Len(ret.bytecode) /\ ret.bytecode[p] = input[p])
            /\ (DeclaredPairs(args.artifact) = {} /\ args.libraries = <<>>) =>
                 ret.bytecode = input

\* the same statement for the calls whose resolved addresses all carry the
\* 0x prefix
PatchCorrectnessOfPrefixedAddresses ==
    (/\ Linking /\ ret.kind = "linked"
     /\ \A i \in 1..Len(ret.links) : ret.links[i].address = AddrA)
    => C6_PatchCorrectness

(***************************************************************************)
(* Properties of the gas annotation.                                       *)
(***************************************************************************)
HexDigitValue(c) ==
    CHOOSE d \in 0..15 :
        <<"0", "1", "2", "3", "4", "5", "6", "7", "8", "9",
          "a", "b", "c", "d", "e", "f">>[d + 1] = c

RECURSIVE HexDigitsValue(_)
HexDigitsValue(digits) ==
    IF digits = <<>> THEN 0
    ELSE 16 * HexDigitsValue(SubSeq(digits, 1, Len(digits) - 1))
         + HexDigitValue(digits[Len(digits)])

\* the number a hex string ("0x..", "-0x..") stands for
HexValue(hex) ==
    IF hex[1] = "-"
    THEN 0 - HexDigitsValue(SubSeq(hex, 4, Len(hex)))
    ELSE HexDigitsValue(SubSeq(hex, 3, Len(hex)))

IsHexString(hex) ==
    LET body == IF Len(hex) > 0 /\ hex[1] = "-" THEN Tail(hex) ELSE hex
    IN  /\ Len(body) > 2
        /\ body[1] = "0" /\ body[2] = "x"
        /\ \A i \in 3..Len(body) : body[i] \in HexDigits

Annotating == pc = "done" /\ op = "addGasToAbiMethodsIfNecessary"

\* C8: with a fixed network gas g the pass returns a new sequence of the
\* same length and order in which every function entry carries
\* gas = toHex(g - 1000000) and every other entry is the input entry itself;
\* with gas "auto" or undefined the ABI is returned as it is, no gas field
\* added; in all cases the entries of the input ABI are left as they were.
C8_GasAnnotation ==
    Annotating =>
        /\ ret.input = args.abi
        /\ Len(ret.abi) = Len(args.abi)
        /\ IF hre.network.gas.kind = "number"
           THEN /\ ~ret.same
                /\ \A i \in 1..Len(args.abi) :
                     IF args.abi[i].type = "function"
                     THEN /\ IsHexString(ret.abi[i].entry.gas)
                          /\ HexValue(ret.abi[i].entry.gas)
                               = hre.network.gas.value - 1000000
                          /\ ret.abi[i].entry.type = "function"
                          /\ ret.abi[i].entry.name = args.abi[i].name
                          /\ ret.abi[i].from # i
                     ELSE /\ ret.abi[i].from = i
                          /\ ret.abi[i].entry = args.abi[i]
           ELSE /\ ret.same
                /\ \A i \in 1..Len(args.abi) :
                     /\ ret.abi[i].from = i
                     /\ ret.abi[i].entry = args.abi[i]

\* network gas 8000000: a function entry gains gas 0x6acfc0 next to an
\* event entry that is passed through
C8_Witness ==
    /\ Annotating
    /\ hre.network.gas = [kind |-> "number", value |-> 8000000]
    /\ Len(args.abi) = 2
    /\ args.abi[1].type = "function" /\ args.abi[1].gas = <<>>
    /\ args.abi[2].type = "event"
    /\ ret.abi[1].entry.gas = <<"0", "x", "6", "a", "c", "f", "c", "0">>
    /\ ret.abi[2].entry = args.abi[2]

(***************************************************************************)
(* Properties of factory construction and signer resolution.               *)
(***************************************************************************)
ByName == pc = "done" /\ op = "getContractFactory(name)"

ByAbi == pc = "done" /\ op = "getContractFactory(abi)"

IsAbstract(bytecode) == bytecode = <<"0", "x">>

LinkingOrSignerLookup == {"collectLibrariesAndLink", "getSigners", "_getSigner"}

\* C9 as stated: constructing a factory fails with AbstractContractError
\* whenever the bytecode is "0x", by contract name and by ABI + bytecode +
\* signer, and by name before any library linking or signer lookup.
C9_AbstractOnEveryPath ==
    /\ (ByName /\ args.name \in DOMAIN ArtifactStore
               /\ IsAbstract(ArtifactStore[args.name].bytecode))
       => /\ ret = Throw("AbstractContractError")
          /\ SeqToSet(trace) \cap LinkingOrSignerLookup = {}
    /\ (ByAbi /\ IsAbstract(args.bytecode))
       => ret = Throw("AbstractContractError")

\* C9 as amended: by contract name, a factory for an artifact whose
\* bytecode is "0x" fails with AbstractContractError before any library
\* linking or signer lookup; by ABI + bytecode + signer no such check is
\* made and a factory with bytecode "0x" is returned.
C9_AbstractByName ==
    /\ (ByName /\ args.name \in DOMAIN ArtifactStore
               /\ IsAbstract(ArtifactStore[args.name].bytecode))
       => /\ ret = Throw("AbstractContractError")
          /\ SeqToSet(trace) \cap LinkingOrSignerLookup = {}
    /\ (ByAbi /\ IsAbstract(args.bytecode))
       => /\ ret.kind = "return"
          /\ IsAbstract(ret.value.bytecode)

\* the abstract contract by name, with options whose library binding would
\* not link and whose signer would have to be looked up
C9_Witness ==
    /\ ByName /\ args.name = "Abstract"
    /\ args.signerOrOptions.tag = "options"
    /\ args.signerOrOptions.signer.tag = "string"
    /\ Len(args.signerOrOptions.libraries) = 1
    /\ args.signerOrOptions.libraries[1].address = AddrBad
    /\ ret = Throw("AbstractContractError")

InAccountList(address) ==
    \E i \in 1..Len(ProviderAccounts) :
        toLowerCase(ProviderAccounts[i]) = toLowerCase(address)

YieldsHandle(r) == r.kind = "return" /\ ~r.value.null

\* C10: getSigner and getSignerOrNull for an address that is not in the
\* provider's account list, and getNamedSigner and getNamedSignerOrNull for
\* a name without an address in the named-account registry, yield no
\* signing handle; named resolution fails with NoDeploymentPluginInstalled
\* when the registry is absent.
C10_SignerResolution ==
    /\ (pc = "done" /\ op \in {"getSigner", "getSignerOrNull"}
                    /\ ~InAccountList(args.address))
       => ~YieldsHandle(ret)
    /\ (pc = "done" /\ op \in {"getNamedSigner", "getNamedSignerOrNull"})
       => /\ ~hre.deploy => ret = Throw("NoDeploymentPluginInstalled")
          /\ (hre.deploy /\ NamedAccount(args.name) = "") => ~YieldsHandle(ret)

====
